---- MODULE Spec2Model ----
(***************************************************************************)
(* Model of the zorba process module (src/src/process-2.xq.src/process.cpp) *)
(* ExecFunction::evaluate with its two backends:                            *)
(*   - the POSIX backend: exec_helper (pipe/fork/dup2/exec) followed by     *)
(*     the sequential drain of stdout, then stderr, then waitpid;           *)
(*   - the Windows backend: run_process (CreatePipe/CreateProcess,          *)
(*     WaitForSingleObject, then read_child_output on both pipes).          *)
(* The operating system (pipes, descriptors, the child process, injected    *)
(* system-call failures) is the environment of the model.                   *)
(***************************************************************************)
EXTENDS Integers, Sequences, FiniteSets, TLC

(* ------------------------------ bounds --------------------------------- *)
\* number of invocation slots (threads of the parent running evaluate)
NumInv == 2
\* capacity of a pipe buffer, in bytes
PipeCap == 1
\* longest child program (number of write operations)
MaxProg == 4
\* longest child program when two invocations run concurrently
MaxProgConc == 1
\* number of system calls the environment may make fail in one behaviour
MaxFaults == 2
\* the same when two invocations run concurrently
MaxFaultsConc == 0
\* largest signal number the kernel delivers
MaxSig == 64
\* most arguments of a call, and the longest argument, of the builder model
MaxArgs == 2
MaxArgLen == 2

(* --------------------------- program constants ------------------------- *)
\* limits.h PATH_MAX: size of lBuf, the largest read
PATH_MAX == 4096
\* the Windows drain buffer, CHAR lBuffer[256]
WinBufSize == 256
\* '\r'
CR == 13
SIGKILL == 9
SIGABRT == 6
SIGPIPE == 13
SIGSTOP == 19

Invs == 1..NumInv
Streams == {"out", "err"}
Pipes == {"in", "out", "err"}
Ends == {"R", "W"}
Endpoints == Invs \X Pipes \X Ends

Min(a, b) == IF a < b THEN a ELSE b

(* ------------------------- termination status -------------------------- *)
Exited(c) == [kind |-> "Exited", n |-> c]
Signaled(s) == [kind |-> "Signaled", n |-> s]
Stopped(s) == [kind |-> "Stopped", n |-> s]
Unknown == [kind |-> "Unknown", n |-> 0]
NoTerm == [kind |-> "None", n |-> 0]

\* the int the kernel stores through waitpid's second argument
WaitStatus(ts, core) ==
  CASE ts.kind = "Exited" -> ts.n * 256
    [] ts.kind = "Signaled" -> ts.n + (IF core THEN 128 ELSE 0)
    [] ts.kind = "Stopped" -> ts.n * 256 + 127
    [] OTHER -> 65535

\* the <sys/wait.h> macros, on the 16 low bits of the status
WIFEXITED(stat) == stat % 128 = 0
WEXITSTATUS(stat) == (stat \div 256) % 256
WIFSIGNALED(stat) == (stat % 128) \in 1..126
WTERMSIG(stat) == stat % 128
WIFSTOPPED(stat) == stat % 256 = 127
WSTOPSIG(stat) == WEXITSTATUS(stat)

\* the same chain with the 128 offset of a signal left out
EncodeStatus_NoOffset(stat) ==
  IF WIFEXITED(stat) THEN WEXITSTATUS(stat)
  ELSE IF WIFSIGNALED(stat) THEN WTERMSIG(stat)
  ELSE IF WIFSTOPPED(stat) THEN 128 + WSTOPSIG(stat)
  ELSE 255
\* evaluate, lines 533-552: the if / else-if chain that sets exit_code
EncodeStatus(stat) ==
  IF WIFEXITED(stat) THEN WEXITSTATUS(stat)
  ELSE IF WIFSIGNALED(stat) THEN 128 + WTERMSIG(stat)
  ELSE IF WIFSTOPPED(stat) THEN 128 + WSTOPSIG(stat)
  ELSE 255

(* ------------------- evaluate: the command-line builder ---------------- *)
\* strings are sequences of characters
Quote == "\""
Space == " "
Slash == "/"
Backslash == "\\"
\* the characters of the arguments the model draws
Chars == {"a", Slash, Backslash}
Strs(n) == UNION {[1..k -> Chars] : k \in 0..n}
ArgLists(n, len) == UNION {[1..k -> Strs(len)] : k \in 0..n}

\* std::string::npos is size_t(-1). A size_t is kept as its two's-complement
\* representative: the sum of two of them wraps to the representative of the
\* sum, and int() keeps the low 32 bits, which leaves a representative of
\* magnitude below 2^31 as it is
NPOS == -1
\* s.rfind(c): the 0-based index of the last c in s, or npos
RFind(s, c) ==
  LET at == {k \in 1..Len(s) : s[k] = c}
  IN IF at = {} THEN NPOS ELSE (CHOOSE k \in at : \A m \in at : m <= k) - 1

\* pos = (*lIter).rfind('\\') + (*lIter).rfind('/');  if (int(pos) >= 0)
IsQuoted(arg) == RFind(arg, Backslash) + RFind(arg, Slash) >= 0
\* an argument is quoted when it holds a separator at all
IsQuoted_AnySeparator(arg) == \E k \in 1..Len(arg) : arg[k] \in {Slash, Backslash}

\* what one iteration of the loop appends to lTmp
ArgText(arg) ==
  IF IsQuoted(arg) THEN <<Space, Quote>> \o arg \o <<Quote>>
  ELSE <<Space>> \o arg

RECURSIVE ArgsText(_)
ArgsText(args) ==
  IF args = <<>> THEN <<>> ELSE ArgText(Head(args)) \o ArgsText(Tail(args))

\* lTmp << "\"" << lCommand << "\""; followed by the loop over lArgs
CommandLine(command, args) == <<Quote>> \o command \o <<Quote>> \o ArgsText(args)

\* WIN32: "cmd /C \"" in front of the line and "\"" behind it
CmdPrefix == <<"c", "m", "d", Space, "/", "C", Space, Quote>>
WinCommandLine(command, args) == CmdPrefix \o CommandLine(command, args) \o <<Quote>>

(* ------------------------------- state --------------------------------- *)
VARIABLES
  active,            \* the invocations that run in this behaviour
  theIsExecProgram,  \* per invocation: ExecFunction::theIsExecProgram
  pc,                \* per invocation: position of the parent in evaluate
  cpc,               \* per invocation: position of the child process
  pfd,               \* pipe endpoints open in the parent's descriptor table
  nclose,            \* per endpoint: number of close() calls by the parent
  cfd,               \* per invocation: the child's descriptor table
  buf,               \* per invocation and stream: bytes in the pipe
  prog,              \* per invocation: the child's remaining writes
  term,              \* per invocation: how the child's program ends
  kstatus,           \* per invocation: termination status held by the kernel
  wrote,             \* per invocation and stream: bytes the child has written
  cap,               \* per invocation and stream: lStdout / lStderr
  pid,               \* per invocation: pid returned by exec_helper
  status,            \* per invocation: status of the last close()
  stat,              \* per invocation: stat filled by waitpid
  exit_code,         \* per invocation: exit_code
  reaped,            \* per invocation: number of times the child was reaped
  hnd,               \* per invocation: Windows process and thread handles
  drainEnd,          \* per invocation and stream: how the drain loop ended
  execFailed,        \* per invocation: exec failed in the child
  err,               \* per invocation: the exception raised, or "none"
  faults,            \* number of system-call failures injected so far
  limits,            \* what the environment may do in this behaviour:
                     \* longest child program, number of failing calls
  lCommand,          \* per invocation: the first argument of the function
  lArgs,             \* per invocation: the items of the second argument
  lEnv,              \* per invocation: the items of the third argument
  environ,           \* the environment of the parent process
  lTmp,              \* per invocation: the command line built by evaluate
  image              \* per invocation: the exec / CreateProcess call that
                     \* started the child's image: file, argv, environment

vars == <<active, theIsExecProgram, pc, cpc, pfd, nclose, cfd, buf, prog, term,
          kstatus, wrote, cap, pid, status, stat, exit_code, reaped, hnd,
          drainEnd, execFailed, err, faults, limits, lCommand, lArgs, lEnv,
          environ, lTmp, image>>

\* the arguments of the call and the parent's environment: no step of
\* evaluate assigns them
avars == <<lCommand, lArgs, lEnv, environ>>
\* variables of the parent's control flow and results
pvars == <<pid, status, stat, exit_code, err>>
\* variables of the child process
cvars == <<cpc, cfd, prog, term, kstatus, wrote, execFailed>>

EP(i, p, e) == <<i, p, e>>
\* what the standard descriptors refer to before they are redirected
Tty == <<0, "tty", "RW">>
NoFds == [std |-> <<Tty, Tty, Tty>>, open |-> {}]
EmptyStreams == [s \in Streams |-> <<>>]
NoHandles == [hProcess |-> "none", hThread |-> "none"]

ChildAlive(i) == cpc[i] \notin {"none", "zombie", "reaped"}
ChildHolds(i, ep) ==
  /\ ChildAlive(i)
  /\ \/ ep \in cfd[i].open
     \/ \E k \in 1..3 : cfd[i].std[k] = ep

\* the processes that hold an end of pipe p of invocation j open: 0 is the
\* parent, k > 0 the child of invocation k
Holders(j, p, e) ==
  (IF EP(j, p, e) \in pfd THEN {0} ELSE {})
    \cup {k \in Invs : ChildHolds(k, EP(j, p, e))}
Writers(j, p) == Holders(j, p, "W")
Readers(j, p) == Holders(j, p, "R")


(* --------------------------- child programs ---------------------------- *)
\* what a child does once it runs its image: a sequence of one-byte writes
\* to its standard output or standard error, the k-th of them writing byte k,
\* and then a termination
StreamSeqs(n) == UNION {[1..k -> Streams] : k \in 0..n}
PosixPrograms(n) == {[k \in DOMAIN f |-> [s |-> f[k], b |-> k]] : f \in StreamSeqs(n)}
Terms == {Exited(0), Exited(3), Signaled(SIGKILL)}
\* the byte standing for the text perror("execl") prints
DiagByte == 33
\* the diagnostic written to standard output instead
PerrorProgram_ToStdout == <<[s |-> "out", b |-> DiagByte]>>
\* perror("execl"): one write to the child's standard error
PerrorProgram == <<[s |-> "err", b |-> DiagByte]>>

StdIndex(s) == IF s = "out" THEN 2 ELSE 3

(* ---------------------- evaluate: the launch form ---------------------- *)
BinSh == <<Slash, "b", "i", "n", Slash, "s", "h">>
Sh == <<"s", "h">>
DashC == <<"-", "c">>
NoImage == [file |-> <<>>, argv |-> <<>>, env |-> <<>>]

\* the last three arguments evaluate hands to exec_helper; a NULL pointer is
\* the empty sequence (the built line is never empty, and env is passed only
\* when lEnv.size() is not 0). The argv vector stays all-NULL in shell mode
Command(i) == IF theIsExecProgram[i] THEN <<>> ELSE lTmp[i]
Argv(i) == IF theIsExecProgram[i] THEN <<lCommand[i]>> \o lArgs[i] ELSE <<>>
Envp(i) == IF theIsExecProgram[i] THEN lEnv[i] ELSE <<>>

\* execvpe: environ = envp; execvp(program, argv), in the child
Execvpe(program, argv, envp) == [file |-> program, argv |-> argv, env |-> envp]
\* the exec call of the child; cenv is the child's copy of environ
ExecCall(command, argv, env, cenv) ==
  IF command # <<>>
    THEN [file |-> BinSh, argv |-> <<Sh, DashC, command>>, env |-> cenv]
  ELSE IF env = <<>>
    THEN [file |-> argv[1], argv |-> argv, env |-> cenv]
  ELSE Execvpe(argv[1], argv, env)

\* CreateProcess(NULL, lCommandLine, ..., lEnvironment = NULL, ...)
WinProcessCall(line, penv) == [file |-> <<>>, argv |-> <<line>>, env |-> penv]

\* the image was started through a command interpreter
ViaShell(img) ==
  \/ img.file = BinSh
  \/ /\ img.file = <<>>
     /\ img.argv # <<>>
     /\ Len(img.argv[1]) >= Len(CmdPrefix)
     /\ SubSeq(img.argv[1], 1, Len(CmdPrefix)) = CmdPrefix

\* evaluate, POSIX build: lTmp is built in both modes
Build(i) ==
  /\ pc[i] = "build"
  /\ lTmp' = [lTmp EXCEPT ![i] = CommandLine(lCommand[i], lArgs[i])]
  /\ pc' = [pc EXCEPT ![i] = "pipe_in"]
  /\ UNCHANGED <<active, theIsExecProgram, cvars, pfd, nclose, buf, cap, pvars,
                 reaped, hnd, drainEnd, faults, limits, avars, image>>

\* evaluate, WIN32 build
WinBuild(i) ==
  /\ pc[i] = "build"
  /\ lTmp' = [lTmp EXCEPT ![i] = WinCommandLine(lCommand[i], lArgs[i])]
  /\ pc' = [pc EXCEPT ![i] = "w_pipe_out"]
  /\ UNCHANGED <<active, theIsExecProgram, cvars, pfd, nclose, buf, cap, pvars,
                 reaped, hnd, drainEnd, faults, limits, avars, image>>

(* ------------------- POSIX backend: exec_helper, parent ---------------- *)
Raise(i, kind) ==
  /\ pc' = [pc EXCEPT ![i] = "error"]
  /\ err' = [err EXCEPT ![i] = kind]

\* pipe(p) != 0 : return -1, and evaluate throws at lines 485-491
PipeFails(i) ==
  /\ faults < limits.faults
  /\ faults' = faults + 1
  /\ pid' = [pid EXCEPT ![i] = -1]
  /\ Raise(i, "spawn")
  /\ UNCHANGED <<pfd, nclose, status, stat, exit_code>>

PipeOk(i, p, next) ==
  /\ pfd' = pfd \cup {EP(i, p, "R"), EP(i, p, "W")}
  /\ pc' = [pc EXCEPT ![i] = next]
  /\ UNCHANGED <<nclose, faults, pvars>>

PipeIn(i) ==
  /\ pc[i] = "pipe_in"
  /\ (PipeOk(i, "in", "pipe_out") \/ PipeFails(i))
  /\ UNCHANGED <<active, theIsExecProgram, cvars, buf, cap, reaped, hnd, drainEnd, limits, avars, lTmp, image>>

PipeOut(i) ==
  /\ pc[i] = "pipe_out"
  /\ (PipeOk(i, "out", "pipe_err") \/ PipeFails(i))
  /\ UNCHANGED <<active, theIsExecProgram, cvars, buf, cap, reaped, hnd, drainEnd, limits, avars, lTmp, image>>

PipeErr(i) ==
  /\ pc[i] = "pipe_err"
  /\ (PipeOk(i, "err", "fork") \/ PipeFails(i))
  /\ UNCHANGED <<active, theIsExecProgram, cvars, buf, cap, reaped, hnd, drainEnd, limits, avars, lTmp, image>>

\* pid = fork(): the child gets a copy of every descriptor open in the parent
Fork(i) ==
  /\ pc[i] = "fork"
  /\ \/ /\ pid' = [pid EXCEPT ![i] = i]
        /\ cpc' = [cpc EXCEPT ![i] = "c_close_in_w"]
        /\ cfd' = [cfd EXCEPT ![i] = [std |-> <<Tty, Tty, Tty>>, open |-> pfd]]
        /\ pc' = [pc EXCEPT ![i] = "p_close_in_w"]
        /\ UNCHANGED <<faults, err>>
     \/ /\ faults < limits.faults
        /\ faults' = faults + 1
        /\ pid' = [pid EXCEPT ![i] = -1]
        /\ Raise(i, "spawn")
        /\ UNCHANGED <<cpc, cfd>>
  /\ UNCHANGED <<active, theIsExecProgram, pfd, nclose, buf, prog, term, kstatus,
                 wrote, cap, status, stat, exit_code, reaped, hnd, drainEnd,
                 execFailed, limits, avars, lTmp, image>>

\* close(fd) in exec_helper: the return value is not looked at
ParentClose(i, ep, next) ==
  /\ pfd' = pfd \ {ep}
  /\ nclose' = [nclose EXCEPT ![ep] = @ + 1]
  /\ pc' = [pc EXCEPT ![i] = next]
  /\ UNCHANGED <<active, theIsExecProgram, cvars, buf, cap, pvars, reaped, hnd,
                 drainEnd, faults, limits, avars, lTmp, image>>

\* infp == NULL: close(p_stdin[WRITE]); then *outfp and *errfp are set
CloseStdinWrite(i) ==
  /\ pc[i] = "p_close_in_w"
  /\ ParentClose(i, EP(i, "in", "W"), "p_close_in_r")
CloseStdinRead(i) ==
  /\ pc[i] = "p_close_in_r"
  /\ ParentClose(i, EP(i, "in", "R"), "p_close_out_w")
CloseStdoutWrite(i) ==
  /\ pc[i] = "p_close_out_w"
  /\ ParentClose(i, EP(i, "out", "W"), "p_close_err_w")
\* the last close of exec_helper; pid > 0 is returned and the drain starts
CloseStderrWrite(i) ==
  /\ pc[i] = "p_close_err_w"
  /\ ParentClose(i, EP(i, "err", "W"), "drain_out")

(* ------------------- POSIX backend: exec_helper, child ----------------- *)
ChildStep(i, newfd, next) ==
  /\ cfd' = [cfd EXCEPT ![i] = newfd]
  /\ cpc' = [cpc EXCEPT ![i] = next]
  /\ UNCHANGED <<active, theIsExecProgram, pc, pfd, nclose, buf, prog, term, kstatus,
                 wrote, cap, pvars, reaped, hnd, drainEnd, execFailed, faults, limits, avars, lTmp, image>>

CloseIn(fds, ep) == [fds EXCEPT !.open = @ \ {ep}]
Dup2(fds, ep, k) == [fds EXCEPT !.std[k] = ep]

ChildCloseStdinWrite(i) ==
  /\ cpc[i] = "c_close_in_w"
  /\ ChildStep(i, CloseIn(cfd[i], EP(i, "in", "W")), "c_dup_in")
ChildDupStdin(i) ==
  /\ cpc[i] = "c_dup_in"
  /\ ChildStep(i, Dup2(cfd[i], EP(i, "in", "R"), 1), "c_close_out_r")
ChildCloseStdoutRead(i) ==
  /\ cpc[i] = "c_close_out_r"
  /\ ChildStep(i, CloseIn(cfd[i], EP(i, "out", "R")), "c_dup_out")
ChildDupStdout(i) ==
  /\ cpc[i] = "c_dup_out"
  /\ ChildStep(i, Dup2(cfd[i], EP(i, "out", "W"), 2), "c_close_err_r")
ChildCloseStderrRead(i) ==
  /\ cpc[i] = "c_close_err_r"
  /\ ChildStep(i, CloseIn(cfd[i], EP(i, "err", "R")), "c_dup_err")
ChildDupStderr(i) ==
  /\ cpc[i] = "c_dup_err"
  /\ ChildStep(i, Dup2(cfd[i], EP(i, "err", "W"), 3), "c_exec")

\* execl / execvp / execvpe: on success the image runs a program; on failure
\* the call returns and the child goes on to perror and abort
ChildExec(i) ==
  /\ cpc[i] = "c_exec"
  /\ \/ /\ \E p \in PosixPrograms(limits.prog), t \in Terms :
             /\ prog' = [prog EXCEPT ![i] = p]
             /\ term' = [term EXCEPT ![i] = t]
        /\ cpc' = [cpc EXCEPT ![i] = "running"]
        /\ image' = [image EXCEPT ![i] =
                       ExecCall(Command(i), Argv(i), Envp(i), environ)]
        /\ UNCHANGED execFailed
     \/ /\ execFailed' = [execFailed EXCEPT ![i] = TRUE]
        /\ prog' = [prog EXCEPT ![i] = PerrorProgram]
        /\ term' = [term EXCEPT ![i] = Signaled(SIGABRT)]
        /\ cpc' = [cpc EXCEPT ![i] = "c_perror"]
        /\ UNCHANGED image
  /\ UNCHANGED <<active, theIsExecProgram, pc, pfd, nclose, cfd, buf, kstatus, wrote,
                 cap, pvars, reaped, hnd, drainEnd, faults, limits, avars, lTmp>>

\* the process ends: the kernel closes its descriptors and keeps its status
Terminate(i, ts) ==
  /\ cpc' = [cpc EXCEPT ![i] = "zombie"]
  /\ cfd' = [cfd EXCEPT ![i] = NoFds]
  /\ kstatus' = [kstatus EXCEPT ![i] = ts]
  /\ prog' = [prog EXCEPT ![i] = <<>>]

\* write(fd, &b, 1) on a standard stream of the child: blocks while the pipe
\* is full, and raises SIGPIPE when the pipe has no reader left
WriteByte(i, next) ==
  LET op == Head(prog[i])
      tgt == cfd[i].std[StdIndex(op.s)]
  IN /\ prog[i] # <<>>
     /\ tgt \in Endpoints
     /\ \/ /\ Readers(tgt[1], tgt[2]) = {}
           /\ Terminate(i, Signaled(SIGPIPE))
           /\ UNCHANGED <<buf, wrote>>
        \/ /\ Readers(tgt[1], tgt[2]) # {}
           /\ Len(buf[tgt[1]][tgt[2]]) < PipeCap
           /\ buf' = [buf EXCEPT ![tgt[1]][tgt[2]] = Append(@, op.b)]
           /\ wrote' = [wrote EXCEPT ![i][op.s] = Append(@, op.b)]
           /\ prog' = [prog EXCEPT ![i] = Tail(@)]
           /\ cpc' = [cpc EXCEPT ![i] = next]
           /\ UNCHANGED <<cfd, kstatus>>
     /\ UNCHANGED <<active, theIsExecProgram, pc, pfd, nclose, term, cap, pvars,
                    reaped, hnd, drainEnd, execFailed, faults, limits, avars, lTmp, image>>

\* perror("execl")
ChildPerror(i) ==
  /\ cpc[i] = "c_perror"
  /\ WriteByte(i, "c_abort")

\* exit(errno) in the place of abort(): the normal exit path
ChildAbort_ExitErrno(i) ==
  /\ cpc[i] = "c_abort"
  /\ Terminate(i, Exited(2))
  /\ UNCHANGED <<active, theIsExecProgram, pc, pfd, nclose, term, buf, wrote, cap,
                 pvars, reaped, hnd, drainEnd, execFailed, faults, limits, avars,
                 lTmp, image>>

\* abort()
ChildAbort(i) ==
  /\ cpc[i] = "c_abort"
  /\ Terminate(i, term[i])
  /\ UNCHANGED <<active, theIsExecProgram, pc, pfd, nclose, term, buf, wrote, cap,
                 pvars, reaped, hnd, drainEnd, execFailed, faults, limits, avars, lTmp, image>>

ChildWrite(i) ==
  /\ cpc[i] = "running"
  /\ WriteByte(i, "running")

ChildExit(i) ==
  /\ cpc[i] = "running"
  /\ prog[i] = <<>>
  /\ Terminate(i, term[i])
  /\ UNCHANGED <<active, theIsExecProgram, pc, pfd, nclose, term, buf, wrote, cap,
                 pvars, reaped, hnd, drainEnd, execFailed, faults, limits, avars, lTmp, image>>


\* a stop signal delivered to the child while it runs its image: the process
\* is stopped, not terminated, and keeps its descriptors
ChildStop(i) ==
  /\ cpc[i] = "running"
  /\ cpc' = [cpc EXCEPT ![i] = "stopped"]
  /\ UNCHANGED <<active, theIsExecProgram, pc, pfd, nclose, cfd, buf, prog, term,
                 kstatus, wrote, cap, pvars, reaped, hnd, drainEnd, execFailed,
                 faults, limits, avars, lTmp, image>>

\* SIGCONT: the stopped child runs again
ChildCont(i) ==
  /\ cpc[i] = "stopped"
  /\ cpc' = [cpc EXCEPT ![i] = "running"]
  /\ UNCHANGED <<active, theIsExecProgram, pc, pfd, nclose, cfd, buf, prog, term,
                 kstatus, wrote, cap, pvars, reaped, hnd, drainEnd, execFailed,
                 faults, limits, avars, lTmp, image>>

(* ------------------ POSIX backend: evaluate, drain and wait ------------ *)
\* while ((length = read(fp, lBuf, PATH_MAX)) > 0) lStream.write(lBuf, length);
\* one read: data, end-of-stream (0) or an error (-1); the loop ends on both
\* of the latter and goes on to close(fp)
DrainRead(i, s, next) ==
  /\ \/ /\ buf[i][s] # <<>>
        /\ \E n \in 1..Min(Len(buf[i][s]), PATH_MAX) :
             /\ cap' = [cap EXCEPT ![i][s] = @ \o SubSeq(buf[i][s], 1, n)]
             /\ buf' = [buf EXCEPT ![i][s] = SubSeq(@, n + 1, Len(@))]
        /\ UNCHANGED <<pc, drainEnd, faults>>
     \/ /\ buf[i][s] = <<>>
        /\ Writers(i, s) = {}
        /\ pc' = [pc EXCEPT ![i] = next]
        /\ drainEnd' = [drainEnd EXCEPT ![i][s] = "eos"]
        /\ UNCHANGED <<buf, cap, faults>>
     \/ /\ faults < limits.faults
        /\ faults' = faults + 1
        /\ drainEnd' = [drainEnd EXCEPT ![i][s] = "error"]
        /\ pc' = [pc EXCEPT ![i] = next]
        /\ UNCHANGED <<buf, cap>>
  /\ UNCHANGED <<active, theIsExecProgram, cvars, pfd, nclose, pvars, reaped, hnd,
                 limits, avars, lTmp, image>>

DrainStdout(i) ==
  /\ pc[i] = "drain_out"
  /\ DrainRead(i, "out", "close_out")
DrainStderr(i) ==
  /\ pc[i] = "drain_err"
  /\ DrainRead(i, "err", "close_err")

\* close(outfp) with its status looked at before the next drain
CloseOutfp_Checked(i) ==
  /\ pc[i] = "close_out"
  /\ pfd' = pfd \ {EP(i, "out", "R")}
  /\ nclose' = [nclose EXCEPT ![EP(i, "out", "R")] = @ + 1]
  /\ \/ /\ status' = [status EXCEPT ![i] = 0]
        /\ pc' = [pc EXCEPT ![i] = "drain_err"]
        /\ UNCHANGED <<faults, err>>
     \/ /\ faults < limits.faults
        /\ faults' = faults + 1
        /\ status' = [status EXCEPT ![i] = -1]
        /\ Raise(i, "close")
  /\ UNCHANGED <<active, theIsExecProgram, cvars, buf, cap, pid, stat, exit_code,
                 reaped, hnd, drainEnd, limits, avars, lTmp, image>>

\* status = close(outfp): the descriptor is released whatever close returns
CloseOutfp(i) ==
  /\ pc[i] = "close_out"
  /\ pfd' = pfd \ {EP(i, "out", "R")}
  /\ nclose' = [nclose EXCEPT ![EP(i, "out", "R")] = @ + 1]
  /\ \/ /\ status' = [status EXCEPT ![i] = 0]
        /\ UNCHANGED faults
     \/ /\ faults < limits.faults
        /\ faults' = faults + 1
        /\ status' = [status EXCEPT ![i] = -1]
  /\ pc' = [pc EXCEPT ![i] = "drain_err"]
  /\ UNCHANGED <<active, theIsExecProgram, cvars, buf, cap, pid, stat, exit_code,
                 err, reaped, hnd, drainEnd, limits, avars, lTmp, image>>

\* status = close(errfp); if (status < 0) throw
CloseErrfp(i) ==
  /\ pc[i] = "close_err"
  /\ pfd' = pfd \ {EP(i, "err", "R")}
  /\ nclose' = [nclose EXCEPT ![EP(i, "err", "R")] = @ + 1]
  /\ \/ /\ status' = [status EXCEPT ![i] = 0]
        /\ pc' = [pc EXCEPT ![i] = "wait"]
        /\ UNCHANGED <<faults, err>>
     \/ /\ faults < limits.faults
        /\ faults' = faults + 1
        /\ status' = [status EXCEPT ![i] = -1]
        /\ Raise(i, "close")
  /\ UNCHANGED <<active, theIsExecProgram, cvars, buf, cap, pid, stat, exit_code,
                 reaped, hnd, drainEnd, limits, avars, lTmp, image>>

\* the core-dump flag the kernel may set in the status of a killed process
CoreFlags(ts) == IF ts.kind = "Signaled" THEN BOOLEAN ELSE {FALSE}

\* waitpid that also reports a stopped child, as with WUNTRACED
WaitReports_Untraced(i) ==
  IF cpc[i] = "zombie" THEN {kstatus[i]}
  ELSE IF cpc[i] = "stopped" THEN {Stopped(SIGSTOP)}
  ELSE {}
\* the states of the child that waitpid(pid, &stat, 0) reports: the options
\* are 0, so the call returns for a terminated child only and blocks otherwise
WaitReports(i) == IF cpc[i] = "zombie" THEN {kstatus[i]} ELSE {}

\* w = waitpid(pid, &stat, 0); if (w == -1) throw. A terminated child is
\* reaped by the call
WaitPid(i) ==
  /\ pc[i] = "wait"
  /\ \/ /\ \E ts \in WaitReports(i) : \E core \in CoreFlags(ts) :
             /\ stat' = [stat EXCEPT ![i] = WaitStatus(ts, core)]
             /\ IF ts.kind \in {"Exited", "Signaled"}
                  THEN /\ cpc' = [cpc EXCEPT ![i] = "reaped"]
                       /\ reaped' = [reaped EXCEPT ![i] = @ + 1]
                  ELSE UNCHANGED <<cpc, reaped>>
        /\ pc' = [pc EXCEPT ![i] = "encode"]
        /\ UNCHANGED <<faults, err>>
     \/ /\ faults < limits.faults
        /\ faults' = faults + 1
        /\ Raise(i, "wait")
        /\ UNCHANGED <<stat, cpc, reaped>>
  /\ UNCHANGED <<active, theIsExecProgram, pfd, nclose, cfd, buf, prog, term, kstatus,
                 wrote, cap, pid, status, exit_code, hnd, drainEnd, execFailed, limits, avars, lTmp, image>>

\* the exit code is set from stat and the result object is created
Encode(i) ==
  /\ pc[i] = "encode"
  /\ exit_code' = [exit_code EXCEPT ![i] = EncodeStatus(stat[i])]
  /\ pc' = [pc EXCEPT ![i] = "result"]
  /\ UNCHANGED <<active, theIsExecProgram, cvars, pfd, nclose, buf, cap, pid, status,
                 stat, err, reaped, hnd, drainEnd, faults, limits, avars, lTmp, image>>

(* ---------------------- Windows backend: run_process ------------------- *)
\* the bytes a child of the Windows backend writes
WinBytes == {CR, 65}
WinPrograms(n) ==
  UNION {[1..k -> [s : Streams, b : WinBytes]] : k \in 0..n}
\* a Windows process ends with an exit code
WinTerms == {Exited(0), Exited(3)}

\* CreatePipe(&lOutRead, &lStdOut, ...) || CreatePipe(&lErrRead, &lStdErr, ...):
\* a failure throws at once
WinCreatePipe(i, p, next) ==
  /\ \/ /\ pfd' = pfd \cup {EP(i, p, "R"), EP(i, p, "W")}
        /\ pc' = [pc EXCEPT ![i] = next]
        /\ UNCHANGED <<faults, err>>
     \/ /\ faults < limits.faults
        /\ faults' = faults + 1
        /\ Raise(i, "spawn")
        /\ UNCHANGED pfd
  /\ UNCHANGED <<active, theIsExecProgram, cvars, nclose, buf, cap, pid, status, stat,
                 exit_code, reaped, hnd, drainEnd, limits, avars, lTmp, image>>

WinCreatePipeOut(i) ==
  /\ pc[i] = "w_pipe_out"
  /\ WinCreatePipe(i, "out", "w_pipe_err")
WinCreatePipeErr(i) ==
  /\ pc[i] = "w_pipe_err"
  /\ WinCreatePipe(i, "err", "w_create")

\* create_child_process: CreateProcess with lInheritHandles = TRUE, the
\* standard output and error of the child set to lStdOut and lStdErr
WinCreateProcess(i) ==
  /\ pc[i] = "w_create"
  /\ \/ /\ \E p \in WinPrograms(limits.prog), t \in WinTerms :
             /\ prog' = [prog EXCEPT ![i] = p]
             /\ term' = [term EXCEPT ![i] = t]
        /\ cpc' = [cpc EXCEPT ![i] = "running"]
        /\ cfd' = [cfd EXCEPT ![i] =
                     [std |-> <<Tty, EP(i, "out", "W"), EP(i, "err", "W")>>,
                      open |-> pfd]]
        /\ hnd' = [hnd EXCEPT ![i] = [hProcess |-> "open", hThread |-> "open"]]
        /\ pid' = [pid EXCEPT ![i] = i]
        /\ pc' = [pc EXCEPT ![i] = "w_close_thread"]
        /\ image' = [image EXCEPT ![i] = WinProcessCall(lTmp[i], environ)]
        /\ UNCHANGED faults
     \/ /\ faults < limits.faults
        /\ faults' = faults + 1
        /\ pc' = [pc EXCEPT ![i] = "w_fail_close_stdout"]
        /\ UNCHANGED <<prog, term, cpc, cfd, hnd, pid, image>>
  /\ UNCHANGED <<active, theIsExecProgram, pfd, nclose, buf, kstatus, wrote, cap,
                 status, stat, exit_code, err, reaped, drainEnd, execFailed, limits,
                 avars, lTmp>>

\* CloseHandle(lChildProcessInfo.hThread)
WinCloseThread(i) ==
  /\ pc[i] = "w_close_thread"
  /\ hnd' = [hnd EXCEPT ![i].hThread = "closed"]
  /\ pc' = [pc EXCEPT ![i] = "w_wait"]
  /\ UNCHANGED <<active, theIsExecProgram, cvars, pfd, nclose, buf, cap, pvars,
                 reaped, drainEnd, faults, limits, avars, lTmp, image>>

\* WaitForSingleObject(hProcess, INFINITE) returns once the child has ended;
\* GetExitCodeProcess then gives the exit code, or fails and the code throws
WinWaitAndGetExitCode(i) ==
  /\ pc[i] = "w_wait"
  /\ cpc[i] = "zombie"
  /\ \/ /\ exit_code' = [exit_code EXCEPT ![i] = kstatus[i].n]
        /\ pc' = [pc EXCEPT ![i] = "w_close_process"]
        /\ UNCHANGED <<faults, err>>
     \/ /\ faults < limits.faults
        /\ faults' = faults + 1
        /\ Raise(i, "wait")
        /\ UNCHANGED exit_code
  /\ UNCHANGED <<active, theIsExecProgram, cvars, pfd, nclose, buf, cap, pid, status,
                 stat, reaped, hnd, drainEnd, limits, avars, lTmp, image>>

\* CloseHandle(lChildProcessInfo.hProcess)
WinCloseProcess(i) ==
  /\ pc[i] = "w_close_process"
  /\ hnd' = [hnd EXCEPT ![i].hProcess = "closed"]
  /\ cpc' = [cpc EXCEPT ![i] = "reaped"]
  /\ reaped' = [reaped EXCEPT ![i] = @ + 1]
  /\ pc' = [pc EXCEPT ![i] = "w_close_stdout"]
  /\ UNCHANGED <<active, theIsExecProgram, pfd, nclose, cfd, buf, prog, term, kstatus,
                 wrote, cap, pvars, drainEnd, execFailed, faults, limits, avars, lTmp, image>>

WinCloseStdOut(i) ==
  /\ pc[i] = "w_close_stdout"
  /\ ParentClose(i, EP(i, "out", "W"), "w_close_stderr")
WinCloseStdErr(i) ==
  /\ pc[i] = "w_close_stderr"
  /\ ParentClose(i, EP(i, "err", "W"), "w_read_out")

StripCR(bytes) == SelectSeq(bytes, LAMBDA b : b # CR)

\* read_child_output: one ReadFile of the loop. Data is appended without its
\* carriage returns; ERROR_BROKEN_PIPE ends the loop; any other failure throws
WinReadChildOutput(i, s, next) ==
  /\ \/ /\ buf[i][s] # <<>>
        /\ \E n \in 1..Min(Len(buf[i][s]), WinBufSize) :
             /\ cap' = [cap EXCEPT ![i][s] = @ \o StripCR(SubSeq(buf[i][s], 1, n))]
             /\ buf' = [buf EXCEPT ![i][s] = SubSeq(@, n + 1, Len(@))]
        /\ UNCHANGED <<pc, drainEnd, faults, err>>
     \/ /\ buf[i][s] = <<>>
        /\ Writers(i, s) = {}
        /\ pc' = [pc EXCEPT ![i] = next]
        /\ drainEnd' = [drainEnd EXCEPT ![i][s] = "eos"]
        /\ UNCHANGED <<buf, cap, faults, err>>
     \/ /\ faults < limits.faults
        /\ faults' = faults + 1
        /\ drainEnd' = [drainEnd EXCEPT ![i][s] = "error"]
        /\ Raise(i, "drain")
        /\ UNCHANGED <<buf, cap>>
  /\ UNCHANGED <<active, theIsExecProgram, cvars, pfd, nclose, pid, status, stat,
                 exit_code, reaped, hnd, limits, avars, lTmp, image>>

WinReadOut(i) ==
  /\ pc[i] = "w_read_out"
  /\ WinReadChildOutput(i, "out", "w_read_err")
WinReadErr(i) ==
  /\ pc[i] = "w_read_err"
  /\ WinReadChildOutput(i, "err", "w_close_outread")

WinCloseOutRead(i) ==
  /\ pc[i] = "w_close_outread"
  /\ ParentClose(i, EP(i, "out", "R"), "w_close_errread")

\* CloseHandle(lErrRead); return exitCode; back in evaluate: if (code != 0)
\* throw, otherwise exit_code = code and the result object is created
WinCloseErrReadAndReturn(i) ==
  /\ pc[i] = "w_close_errread"
  /\ pfd' = pfd \ {EP(i, "err", "R")}
  /\ nclose' = [nclose EXCEPT ![EP(i, "err", "R")] = @ + 1]
  /\ IF exit_code[i] # 0
       THEN Raise(i, "command")
       ELSE /\ pc' = [pc EXCEPT ![i] = "result"]
            /\ UNCHANGED err
  /\ UNCHANGED <<active, theIsExecProgram, cvars, buf, cap, pid, status, stat,
                 exit_code, reaped, hnd, drainEnd, faults, limits, avars, lTmp, image>>

\* the else branch of run_process: CreateProcess failed
WinFailCloseStdOut(i) ==
  /\ pc[i] = "w_fail_close_stdout"
  /\ ParentClose(i, EP(i, "out", "W"), "w_fail_close_stderr")
WinFailCloseStdErr(i) ==
  /\ pc[i] = "w_fail_close_stderr"
  /\ ParentClose(i, EP(i, "err", "W"), "w_fail_close_outread")
WinFailCloseOutRead(i) ==
  /\ pc[i] = "w_fail_close_outread"
  /\ ParentClose(i, EP(i, "out", "R"), "w_fail_close_errread")
\* CloseHandle(lErrRead); throw_last_error
WinFailCloseErrReadAndThrow(i) ==
  /\ pc[i] = "w_fail_close_errread"
  /\ pfd' = pfd \ {EP(i, "err", "R")}
  /\ nclose' = [nclose EXCEPT ![EP(i, "err", "R")] = @ + 1]
  /\ Raise(i, "spawn")
  /\ UNCHANGED <<active, theIsExecProgram, cvars, buf, cap, pid, status, stat,
                 exit_code, reaped, hnd, drainEnd, faults, limits, avars, lTmp, image>>

(* --------------------------- specifications ---------------------------- *)
\* the name of the program to run, and the environment of the parent
ProgramName == <<"p">>
ParentEnv == <<"HOME=/">>
\* the env items a caller passes
EnvLists == {<<>>, <<"K=V">>}
\* the arguments of an invocation of the backend models: one plain word and
\* one path
FixedArgs == <<<<"a">>, <<"a", Slash, "a">>>>

InitCommon ==
  /\ theIsExecProgram \in [Invs -> BOOLEAN]
  /\ cpc = [i \in Invs |-> "none"]
  /\ pfd = {}
  /\ nclose = [ep \in Endpoints |-> 0]
  /\ cfd = [i \in Invs |-> NoFds]
  /\ buf = [i \in Invs |-> EmptyStreams]
  /\ prog = [i \in Invs |-> <<>>]
  /\ term = [i \in Invs |-> NoTerm]
  /\ kstatus = [i \in Invs |-> NoTerm]
  /\ wrote = [i \in Invs |-> EmptyStreams]
  /\ cap = [i \in Invs |-> EmptyStreams]
  /\ pid = [i \in Invs |-> 0]
  /\ status = [i \in Invs |-> 0]
  /\ stat = [i \in Invs |-> 0]
  /\ exit_code = [i \in Invs |-> 0]
  /\ reaped = [i \in Invs |-> 0]
  /\ hnd = [i \in Invs |-> NoHandles]
  /\ drainEnd = [i \in Invs |-> [s \in Streams |-> "none"]]
  /\ execFailed = [i \in Invs |-> FALSE]
  /\ err = [i \in Invs |-> "none"]
  /\ faults = 0
  /\ lCommand = [i \in Invs |-> ProgramName]
  /\ environ = ParentEnv
  /\ lTmp = [i \in Invs |-> <<>>]
  /\ image = [i \in Invs |-> NoImage]

\* one invocation of evaluate on the POSIX backend
Init ==
  /\ active = {1}
  /\ limits = [prog |-> MaxProg, faults |-> MaxFaults]
  /\ pc = [i \in Invs |-> IF i \in active THEN "build" ELSE "idle"]
  /\ InitCommon
  /\ \A i \in Invs \ active : theIsExecProgram[i] = FALSE
  /\ lArgs = [i \in Invs |-> IF i \in active THEN FixedArgs ELSE <<>>]
  /\ lEnv \in [Invs -> EnvLists]
  /\ \A i \in Invs \ active : lEnv[i] = <<>>

Next ==
  \/ \E i \in Invs : Build(i)
  \/ \E i \in Invs : PipeIn(i)
  \/ \E i \in Invs : PipeOut(i)
  \/ \E i \in Invs : PipeErr(i)
  \/ \E i \in Invs : Fork(i)
  \/ \E i \in Invs : CloseStdinWrite(i)
  \/ \E i \in Invs : CloseStdinRead(i)
  \/ \E i \in Invs : CloseStdoutWrite(i)
  \/ \E i \in Invs : CloseStderrWrite(i)
  \/ \E i \in Invs : ChildCloseStdinWrite(i)
  \/ \E i \in Invs : ChildDupStdin(i)
  \/ \E i \in Invs : ChildCloseStdoutRead(i)
  \/ \E i \in Invs : ChildDupStdout(i)
  \/ \E i \in Invs : ChildCloseStderrRead(i)
  \/ \E i \in Invs : ChildDupStderr(i)
  \/ \E i \in Invs : ChildExec(i)
  \/ \E i \in Invs : ChildPerror(i)
  \/ \E i \in Invs : ChildAbort(i)
  \/ \E i \in Invs : ChildWrite(i)
  \/ \E i \in Invs : ChildExit(i)
  \/ \E i \in Invs : ChildStop(i)
  \/ \E i \in Invs : ChildCont(i)
  \/ \E i \in Invs : DrainStdout(i)
  \/ \E i \in Invs : CloseOutfp(i)
  \/ \E i \in Invs : DrainStderr(i)
  \/ \E i \in Invs : CloseErrfp(i)
  \/ \E i \in Invs : WaitPid(i)
  \/ \E i \in Invs : Encode(i)

Spec == Init /\ [][Next]_vars

\* one invocation of evaluate on the Windows backend
InitWin ==
  /\ active = {1}
  /\ limits = [prog |-> MaxProg, faults |-> MaxFaults]
  /\ pc = [i \in Invs |-> IF i \in active THEN "build" ELSE "idle"]
  /\ InitCommon
  /\ \A i \in Invs \ active : theIsExecProgram[i] = FALSE
  /\ lArgs = [i \in Invs |-> IF i \in active THEN FixedArgs ELSE <<>>]
  /\ lEnv \in [Invs -> EnvLists]
  /\ \A i \in Invs \ active : lEnv[i] = <<>>

NextWin ==
  \/ \E i \in Invs : WinBuild(i)
  \/ \E i \in Invs : WinCreatePipeOut(i)
  \/ \E i \in Invs : WinCreatePipeErr(i)
  \/ \E i \in Invs : WinCreateProcess(i)
  \/ \E i \in Invs : WinCloseThread(i)
  \/ \E i \in Invs : ChildWrite(i)
  \/ \E i \in Invs : ChildExit(i)
  \/ \E i \in Invs : WinWaitAndGetExitCode(i)
  \/ \E i \in Invs : WinCloseProcess(i)
  \/ \E i \in Invs : WinCloseStdOut(i)
  \/ \E i \in Invs : WinCloseStdErr(i)
  \/ \E i \in Invs : WinReadOut(i)
  \/ \E i \in Invs : WinReadErr(i)
  \/ \E i \in Invs : WinCloseOutRead(i)
  \/ \E i \in Invs : WinCloseErrReadAndReturn(i)
  \/ \E i \in Invs : WinFailCloseStdOut(i)
  \/ \E i \in Invs : WinFailCloseStdErr(i)
  \/ \E i \in Invs : WinFailCloseOutRead(i)
  \/ \E i \in Invs : WinFailCloseErrReadAndThrow(i)

SpecWin == InitWin /\ [][NextWin]_vars


\* two invocations of evaluate run concurrently in one parent process, on
\* the POSIX backend
InitConc ==
  /\ active = {1, 2}
  /\ limits = [prog |-> MaxProgConc, faults |-> MaxFaultsConc]
  /\ pc = [i \in Invs |-> IF i \in active THEN "build" ELSE "idle"]
  /\ InitCommon
  /\ theIsExecProgram = [i \in Invs |-> i \in active]
  /\ lArgs = [i \in Invs |-> FixedArgs]
  /\ lEnv = [i \in Invs |-> <<>>]

SpecConc == InitConc /\ [][Next]_vars

\* the command-line builder alone, in its two conditional compilations, on
\* every argument list within the bounds
InitBuild ==
  /\ active = {1}
  /\ limits = [prog |-> MaxProg, faults |-> MaxFaults]
  /\ pc = [i \in Invs |-> IF i \in active THEN "build" ELSE "idle"]
  /\ InitCommon
  /\ \A i \in Invs \ active : theIsExecProgram[i] = FALSE
  /\ lArgs \in [Invs -> ArgLists(MaxArgs, MaxArgLen)]
  /\ \A i \in Invs \ active : lArgs[i] = <<>>
  /\ lEnv = [i \in Invs |-> <<>>]

NextBuild ==
  \/ \E i \in Invs : Build(i)
  \/ \E i \in Invs : WinBuild(i)

SpecBuild == InitBuild /\ [][NextBuild]_vars

\* the statuses waitpid can store for a child
AllStatuses ==
  {Exited(c) : c \in 0..255} \cup {Signaled(s) : s \in 1..MaxSig}
    \cup {Stopped(s) : s \in 1..MaxSig} \cup {Unknown}

\* the encoding of the exit code alone: waitpid has just returned any status
InitEncode ==
  /\ active = {1}
  /\ limits = [prog |-> MaxProg, faults |-> MaxFaults]
  /\ pc = [i \in Invs |-> "idle"]
  /\ InitCommon
  /\ \A i \in Invs \ active : theIsExecProgram[i] = FALSE
  /\ lArgs = [i \in Invs |-> <<>>]
  /\ lEnv = [i \in Invs |-> <<>>]

StartEncode(i) ==
  /\ pc[i] = "idle"
  /\ i \in active
  /\ \E ts \in AllStatuses : \E core \in CoreFlags(ts) :
       /\ kstatus' = [kstatus EXCEPT ![i] = ts]
       /\ stat' = [stat EXCEPT ![i] = WaitStatus(ts, core)]
  /\ pc' = [pc EXCEPT ![i] = "encode"]
  /\ UNCHANGED <<active, theIsExecProgram, cpc, pfd, nclose, cfd, buf, prog, term,
                 wrote, cap, pid, status, exit_code, reaped, hnd, drainEnd,
                 execFailed, err, faults, limits, avars, lTmp, image>>

NextEncode ==
  \/ \E i \in Invs : StartEncode(i)
  \/ \E i \in Invs : Encode(i)

SpecEncode == InitEncode /\ [][NextEncode]_vars

(* ------------------------------ predicates ----------------------------- *)
Terminal(i) == pc[i] \in {"result", "error"}
OwnEndpoints(i) == {i} \X Pipes \X Ends

\* the child's next step is a write to a pipe that is full and has a reader
ChildBlockedOnWrite(i, s) ==
  /\ cpc[i] \in {"running", "c_perror"}
  /\ prog[i] # <<>>
  /\ Head(prog[i]).s = s
  /\ Len(buf[i][s]) >= PipeCap
  /\ Readers(i, s) # {}

\* the parent sits in read() on an empty pipe that still has a writer
ParentBlockedOnRead(i, s) ==
  /\ pc[i] = (IF s = "out" THEN "drain_out" ELSE "drain_err")
  /\ buf[i][s] = <<>>
  /\ Writers(i, s) # {}

\* the parent sits in waitpid() while the child has not terminated
ParentBlockedOnWait(i) ==
  /\ pc[i] \in {"wait", "w_wait"}
  /\ ChildAlive(i)

(* ------------------------------- claims -------------------------------- *)
\* C1: no invocation reaches a state in which the child is blocked writing to
\* a full pipe while the parent is blocked on the other pipe or on the
\* termination wait.
C1_NoPipeDeadlock ==
  \A i \in Invs : \A s \in Streams :
    ~ /\ ChildBlockedOnWrite(i, s)
      /\ \/ \E t \in Streams \ {s} : ParentBlockedOnRead(i, t)
         \/ ParentBlockedOnWait(i)

\* C2: the exit code of a result is a total function of the termination
\* status of the child: Exited(c) gives c, Signaled(s) and Stopped(s) give
\* 128 + s, any other status gives 255; and at most one of the three tests
\* holds of a status, the fourth case being the remaining one.
C2_ExitCodeEncoding ==
  \A i \in Invs :
    /\ pc[i] = "result" =>
         exit_code[i] = CASE kstatus[i].kind = "Exited" -> kstatus[i].n
                          [] kstatus[i].kind \in {"Signaled", "Stopped"} ->
                               128 + kstatus[i].n
                          [] OTHER -> 255
    /\ pc[i] \in {"encode", "result"} =>
         Cardinality({k \in 1..3 : <<WIFEXITED(stat[i]), WIFSIGNALED(stat[i]),
                                     WIFSTOPPED(stat[i])>>[k]}) <= 1

\* a child killed by SIGKILL has given a result with exit code 128 + 9
C2_Witness ==
  /\ pc[1] = "result"
  /\ kstatus[1] = Signaled(SIGKILL)
  /\ exit_code[1] = 128 + SIGKILL

\* C3: for every child that was spawned and exits normally with code c, the
\* backend returns a result record whose exit-code is c (when no system call
\* of the invocation failed).
C3_ExitCodeReturned ==
  \A i \in Invs :
    (Terminal(i) /\ kstatus[i].kind = "Exited" /\ faults = 0) =>
      (pc[i] = "result" /\ exit_code[i] = kstatus[i].n)

\* C4: in every terminal state after a successful spawn every pipe endpoint
\* of the parent has been closed exactly once and the child has been reaped
\* exactly once.
C4_ReleasedExactlyOnce ==
  \A i \in Invs :
    (Terminal(i) /\ pid[i] > 0) =>
      /\ \A ep \in OwnEndpoints(i) : ep \notin pfd /\ nclose[ep] <= 1
      /\ reaped[i] = 1

\* C5: when exec cannot locate or execute the program, no result record is
\* ever produced (stated for the runs in which no system call of the parent
\* fails, so that a violation owes nothing to an injected failure).
C5_NoResultOnExecFailure ==
  \A i \in Invs : (execFailed[i] /\ faults = 0) => pc[i] # "result"

\* C6: when a result is returned, the captured stdout and stderr are exactly
\* the bytes the child wrote to its standard output and standard error.
C6_CaptureIsExact ==
  \A i \in Invs : pc[i] = "result" => cap[i] = wrote[i]

\* C7: if a read on either pipe fails, no result is returned.
C7_ReadErrorGivesNoResult ==
  \A i \in Invs :
    (\E s \in Streams : drainEnd[i][s] = "error") => pc[i] # "result"

\* C8: with two invocations running concurrently, the drain of one does not
\* depend on the child of the other: once an invocation's own child has
\* terminated and the pipe it drains is empty, the pipe has no writer left
\* (the read returns end-of-stream).
C8_DrainIndependentOfOtherChild ==
  \A i \in Invs : \A s \in Streams :
    (/\ pc[i] = (IF s = "out" THEN "drain_out" ELSE "drain_err")
     /\ cpc[i] = "zombie"
     /\ buf[i][s] = <<>>) => Writers(i, s) = {}

\* C9: the blocking wait for the child's termination begins only after both
\* drains have observed end-of-stream.
C9_WaitAfterBothEos ==
  \A i \in Invs :
    pc[i] \in {"wait", "w_wait"} => \A s \in Streams : drainEnd[i][s] = "eos"

\* C10: when spawn fails, every pipe endpoint already created has been closed
\* before the failure is raised and no child is left running.
C10_SpawnFailureClosesPipes ==
  \A i \in Invs :
    (pc[i] = "error" /\ err[i] = "spawn") =>
      /\ OwnEndpoints(i) \cap pfd = {}
      /\ ~ChildAlive(i)

\* the text the quoting rule gives for a list of arguments: each argument
\* after one space, between double quotes when it holds a separator
RECURSIVE RuleArgsText(_)
RuleArgsText(args) ==
  IF args = <<>> THEN <<>>
  ELSE (IF IsQuoted_AnySeparator(Head(args))
          THEN <<Space, Quote>> \o Head(args) \o <<Quote>>
          ELSE <<Space>> \o Head(args))
       \o RuleArgsText(Tail(args))

\* C11: in the built command line the command is always between double
\* quotes, and each argument follows in order after one space, between double
\* quotes exactly when it contains a forward slash or a backslash at any
\* position (position 0 included).
C11_QuotedIffSeparator ==
  \A i \in Invs :
    LET rule == <<Quote>> \o lCommand[i] \o <<Quote>> \o RuleArgsText(lArgs[i])
    IN /\ pc[i] = "pipe_in" => lTmp[i] = rule
       /\ pc[i] = "w_pipe_out" => lTmp[i] = CmdPrefix \o rule \o <<Quote>>

\* C12: in every backend the parent has closed its own copies of the write
\* ends of the stdout and stderr pipes before its first blocking drain read
\* and before its termination wait.
C12_WriteEndsClosedBeforeBlocking ==
  \A i \in Invs : \A s \in Streams :
    pc[i] \in {"drain_out", "drain_err", "wait",
               "w_wait", "w_read_out", "w_read_err"} => EP(i, s, "W") \notin pfd

\* C13: a result is returned only after the child has terminated, by exiting
\* or by a signal; there is no state in which the exit code is being computed
\* or the result has been returned while the child still runs or is stopped.
C13_ResultOnlyAfterTermination ==
  \A i \in Invs :
    pc[i] \in {"encode", "result"} =>
      /\ cpc[i] = "reaped"
      /\ kstatus[i].kind \in {"Exited", "Signaled"}

\* the parent sits in waitpid while its child is stopped, not terminated
C13_Witness ==
  /\ pc[1] = "wait"
  /\ cpc[1] = "stopped"

\* C14: the two invocation modes launch different forms and never mix them.
\* In program-args mode the child executes the program itself, with the
\* argument vector [program, args...] in order and without a shell; in
\* shell-string mode the child executes the system shell on the single built
\* command line, and the argument vector is not used.
C14_ModesLaunchDifferentForms ==
  \A i \in Invs :
    image[i] # NoImage =>
      IF theIsExecProgram[i]
        THEN /\ ~ViaShell(image[i])
             /\ image[i].file = lCommand[i]
             /\ image[i].argv = <<lCommand[i]>> \o lArgs[i]
        ELSE /\ ViaShell(image[i])
             /\ image[i].argv[Len(image[i].argv)] = lTmp[i]
             /\ \A k \in 1..Len(image[i].argv) :
                  image[i].argv[k] \in {Sh, DashC, lTmp[i]}

\* C15: in program-args mode the environment of the child is exactly the
\* env sequence of the caller when that sequence is not empty, and the
\* environment of the parent when it is empty; the environment of the parent
\* is never changed by an invocation.
C15_EnvironmentReplacedOrInherited ==
  /\ environ = ParentEnv
  /\ \A i \in Invs :
       (theIsExecProgram[i] /\ image[i] # NoImage) =>
         image[i].env = (IF lEnv[i] # <<>> THEN lEnv[i] ELSE ParentEnv)

\* C16: on POSIX, from the moment the child executes the target program the
\* only pipe descriptors open in the child are its standard streams 0, 1 and
\* 2: the unused ends and the pre-dup descriptors of the three pipes are
\* closed, so that the stdout pipe has no writer left in the child other
\* than descriptor 1.
C16_OnlyStdDescriptorsAtExec ==
  \A i \in Invs :
    cpc[i] \in {"running", "stopped"} =>
      /\ cfd[i].open = {}
      /\ cfd[i].std = <<EP(i, "in", "R"), EP(i, "out", "W"), EP(i, "err", "W")>>

\* C17: on POSIX, once exec has failed in the forked child, the child only
\* writes its diagnostic to its standard error and then terminates
\* abnormally: it executes no image, writes nothing else, and never ends by
\* the normal exit path (it is killed by abort, or by SIGPIPE inside the
\* write of the diagnostic when the parent has already closed the pipe).
C17_ExecFailureOnlyPerrorAndAbort ==
  \A i \in Invs :
    execFailed[i] =>
      /\ cpc[i] \in {"c_perror", "c_abort", "zombie", "reaped"}
      /\ image[i] = NoImage
      /\ wrote[i]["out"] = <<>>
      /\ wrote[i]["err"] \in {<<>>, <<DiagByte>>}
      /\ cpc[i] = "c_abort" => wrote[i]["err"] = <<DiagByte>>
      /\ cpc[i] \in {"zombie", "reaped"} =>
           kstatus[i] \in {Signaled(SIGABRT), Signaled(SIGPIPE)}

\* the child whose exec failed has written its diagnostic and was aborted
C17_Witness ==
  /\ execFailed[1]
  /\ cpc[1] = "zombie"
  /\ kstatus[1] = Signaled(SIGABRT)
  /\ wrote[1]["err"] = <<DiagByte>>

\* C18: on POSIX, after pipe creation and fork have succeeded, an exec
\* failure in the child is not reported as an error: no spawn failure is
\* raised, the invocation goes through the drains and the wait and, when no
\* system call of the parent fails, ends with a result; a result that
\* follows a stderr drain to end-of-stream has the exit code 128 + SIGABRT
\* and a captured stderr that holds the diagnostic of the child.
C18_ExecFailureGivesAbortResult ==
  \A i \in Invs :
    execFailed[i] =>
      /\ pid[i] > 0
      /\ err[i] # "spawn"
      /\ (Terminal(i) /\ faults = 0) => pc[i] = "result"
      /\ (pc[i] = "result" /\ drainEnd[i]["err"] = "eos") =>
           /\ exit_code[i] = 128 + SIGABRT
           /\ cap[i]["err"] = <<DiagByte>>

\* an invocation whose child failed to exec has returned the result 134 with
\* the diagnostic in stderr, without any failing system call in the parent
C18_Witness ==
  /\ execFailed[1]
  /\ faults = 0
  /\ pc[1] = "result"
  /\ exit_code[1] = 128 + SIGABRT
  /\ cap[1]["err"] = <<DiagByte>>

\* C19: on POSIX, a failed close of the stdout read end is never reported:
\* the step from close(outfp) always goes on to the stderr drain without an
\* error, and its status is overwritten by that of close(errfp). Only a failed
\* close of the stderr read end raises the close error, and it does so before
\* the child is waited for.
C19_OnlyStderrCloseFailureRaised ==
  [][\A i \in Invs :
       /\ (pc[i] = "close_out" /\ pc'[i] # pc[i]) =>
            /\ pc'[i] = "drain_err"
            /\ err'[i] = "none"
       /\ (err'[i] = "close" /\ err[i] # "close") =>
            /\ pc[i] = "close_err"
            /\ status'[i] < 0
            /\ reaped[i] = 0
            /\ cpc'[i] # "reaped"
       /\ (pc[i] = "close_err" /\ pc'[i] = "wait") => status'[i] = 0
       /\ (pc[i] = "close_err" /\ pc'[i] # pc[i] /\ status'[i] < 0) =>
            err'[i] = "close"]_vars

\* close(outfp) has failed and the invocation has gone on to the stderr drain
C19_Witness ==
  /\ pc[1] = "drain_err"
  /\ status[1] = -1
  /\ err[1] = "none"

====
